---- MODULE Spec2Model ----
(***************************************************************************)
(* Cluster engine of 9volt (package cluster): director election through a *)
(* shared coordination store, director/member heartbeats and the member   *)
(* monitor.  Each node runs DirectorMonitor, DirectorHeartbeat,           *)
(* MemberHeartbeat and MemberMonitor; the RPCs of one loop iteration are  *)
(* separate steps, so that the other loops and nodes interleave between   *)
(* them as goroutines and processes do.                                   *)
(*                                                                         *)
(* Time.  A timestamp produced by time.Now() is kept as the pair          *)
(* (stamp, age).  age is NOW - T in units of one HeartbeatInterval; it is *)
(* advanced by Tick and saturates above HeartbeatTimeout, where isExpired *)
(* no longer distinguishes values.  stamp tells whether the timestamp is  *)
(* the one of the payload now stored under cluster/director ("cur") or an *)
(* earlier one ("old"): two writes never carry the same timestamp, so     *)
(* every write turns the timestamps observed before it into "old".        *)
(***************************************************************************)
EXTENDS Integers, Sequences, FiniteSets

Nodes == {"A", "B"}

\* cfg.HeartbeatInterval and cfg.HeartbeatTimeout, in units of one interval
HeartbeatInterval == 1
HeartbeatTimeout == 2

\* ages above HeartbeatTimeout are all "expired": saturate there
AgeCap == HeartbeatTimeout + 1

\* bound on the number of watch events kept for the watchers
MaxEvents == 2

VARIABLES
    director,       \* payload stored under cluster/director, or NoBytes
    storeUp,        \* the coordination store answers requests
    alive,          \* alive[n]: the process of node n is running
    DirectorState,  \* Cluster.DirectorState of node n
    DirectorLock,   \* Cluster.DirectorLock is held (by setDirectorState)
    dmPc,           \* position of runDirectorMonitor's iteration
    obs,            \* directorJSON returned by getState in this iteration
    dhPc,           \* position of runDirectorHeartbeat's iteration
    timer,          \* time left until the next tick of each timed looper
    StateChan,      \* the value last received from c.StateChan (false
                    \* before any)
    members,        \* members[m]: what the store holds under cluster/members/<m>
    events,         \* watch events on cluster/members/ some watcher has yet to see
    cursor,         \* cursor[n]: events the watcher of n has consumed (-1: no
                    \* Watch was issued yet)
    mhPc,           \* position of runMemberHeartbeat
    refreshing,     \* a Refresh goroutine of runMemberHeartbeat is in flight
    initFinished,   \* a value is buffered in the initFinished channel
    mmPc,           \* position of runMemberMonitor
    mmEvent,        \* the event runMemberMonitor is publishing for
    owed,           \* owed[n][m]: member-directory creations of m delivered to
                    \* the watcher of n, less the signals n published for them
    stopped         \* stopped[n]: what Stop() has issued so far: "dm", "dh",
                    \* "mh" for the Quit of a looper, "ctx" for
                    \* Component.Cancel()

electionVars == <<director, DirectorState, DirectorLock, dmPc, obs, dhPc, timer,
                  StateChan>>

memberVars == <<members, events, cursor, mhPc, refreshing, initFinished,
                mmPc, mmEvent, owed, stopped>>

vars == <<director, storeUp, alive, DirectorState, DirectorLock, dmPc, obs,
          dhPc, timer, StateChan, members, events, cursor, mhPc, refreshing,
          initFinished, mmPc, mmEvent, owed, stopped>>

----------------------------------------------------------------------------
\* Serialized payloads and the DirectorJSON struct

\* no key under cluster/director
NoBytes == [member |-> "none", stamp |-> "old", age |-> 0, form |-> "canon"]

\* nil *DirectorJSON
Nil == [MemberID |-> "none", stamp |-> "old", age |-> 0]

\* layouts of a JSON text: "canon" is what json.Marshal emits, "loose" any
\* other text that json.Unmarshal decodes to the same struct
Forms == {"canon", "loose"}

\* json.Marshal of a DirectorJSON: always the canonical layout
Marshal(d) ==
    [member |-> d.MemberID, stamp |-> d.stamp, age |-> d.age, form |-> "canon"]

\* json.Unmarshal into a DirectorJSON: the layout of the text is not kept
Unmarshal(b) ==
    [MemberID |-> b.member, stamp |-> b.stamp, age |-> b.age]

\* &DirectorJSON{MemberID: c.MemberID, LastUpdate: time.Now()}
newDirectorJSON(n) == [MemberID |-> n, stamp |-> "cur", age |-> 0]

\* an observation made before the stored payload was replaced or retired
Supersede(o) == IF o = Nil THEN Nil ELSE [o EXCEPT !.stamp = "old"]

\* isExpired counting a record as old as HeartbeatTimeout as expired
isExpired_atTimeout(age) == age >= HeartbeatTimeout

isExpired(age) == age > HeartbeatTimeout

\* amDirector as it would be if it did not read the flag
amDirector_always(n) == TRUE

amDirector(n) == DirectorState[n]

----------------------------------------------------------------------------
\* handleState: the action chosen for an observation and the local flag

\* handleState without the branch for an absent record
handleState_noCreate(self, directorJSON, flag) ==
    IF directorJSON = Nil
    THEN [action |-> "NONE", etcdAction |-> "NOOP"]
    ELSE IF directorJSON.MemberID = self /\ ~flag
    THEN [action |-> "START", etcdAction |-> "UPDATE"]
    ELSE IF directorJSON.MemberID # self /\ flag
    THEN [action |-> "STOP", etcdAction |-> "NOOP"]
    ELSE IF directorJSON.MemberID # self /\ isExpired(directorJSON.age)
    THEN [action |-> "START", etcdAction |-> "UPDATE"]
    ELSE [action |-> "NONE", etcdAction |-> "NOOP"]

\* handleState choosing STOP for a foreign record whatever the flag
handleState_stopAlways(self, directorJSON, flag) ==
    IF directorJSON = Nil
    THEN [action |-> "START", etcdAction |-> "CREATE"]
    ELSE IF directorJSON.MemberID = self /\ ~flag
    THEN [action |-> "START", etcdAction |-> "UPDATE"]
    ELSE IF directorJSON.MemberID # self
    THEN [action |-> "STOP", etcdAction |-> "NOOP"]
    ELSE [action |-> "NONE", etcdAction |-> "NOOP"]

handleState(self, directorJSON, flag) ==
    IF directorJSON = Nil
    THEN [action |-> "START", etcdAction |-> "CREATE"]
    ELSE IF directorJSON.MemberID = self /\ ~flag
    THEN [action |-> "START", etcdAction |-> "UPDATE"]
    ELSE IF directorJSON.MemberID # self /\ flag
    THEN [action |-> "STOP", etcdAction |-> "NOOP"]
    ELSE IF directorJSON.MemberID # self /\ isExpired(directorJSON.age)
    THEN [action |-> "START", etcdAction |-> "UPDATE"]
    ELSE [action |-> "NONE", etcdAction |-> "NOOP"]

\* dal.CreateDirectorState: Set conditioned on "must not exist"
CreateDirectorState(data) ==
    [ok |-> storeUp /\ director = NoBytes, value |-> data]

\* dal.UpdateDirectorState: compare-and-swap on the previous value unless
\* force, in which case it is a plain Set
UpdateDirectorState(data, prevValue, force) ==
    [ok |-> storeUp /\ (force \/ (director # NoBytes /\ director = prevValue)),
     value |-> data]

\* updateState with an UPDATE that does not compare the previous value
updateState_forced(n, prevDirectorJSON, etcdAction) ==
    LET data == Marshal(newDirectorJSON(n))
    IN  IF etcdAction = "UPDATE"
        THEN UpdateDirectorState(data, Marshal(prevDirectorJSON), TRUE)
        ELSE CreateDirectorState(data)

\* updateState whose error changeState does not look at
updateState_unchecked(n, prevDirectorJSON, etcdAction) ==
    LET data == Marshal(newDirectorJSON(n))
        w == IF etcdAction = "UPDATE"
             THEN UpdateDirectorState(data, Marshal(prevDirectorJSON), FALSE)
             ELSE CreateDirectorState(data)
    IN  [ok |-> TRUE, value |-> IF w.ok THEN w.value ELSE director]

\* updateState: the store write of a START
updateState(n, prevDirectorJSON, etcdAction) ==
    LET data == Marshal(newDirectorJSON(n))
    IN  IF etcdAction = "UPDATE"
        THEN UpdateDirectorState(data, Marshal(prevDirectorJSON), FALSE)
        ELSE CreateDirectorState(data)

\* sendDirectorHeartbeat whose write never reaches the store
sendDirectorHeartbeat_lost(n) ==
    [ok |-> FALSE, value |-> Marshal(newDirectorJSON(n))]

\* sendDirectorHeartbeat: UpdateDirectorState(data, "", true)
sendDirectorHeartbeat(n) ==
    UpdateDirectorState(Marshal(newDirectorJSON(n)), NoBytes, TRUE)

----------------------------------------------------------------------------
\* The subtree cluster/members/ and its watchers

\* nothing stored under cluster/members/<m>
NoDir ==
    [dir |-> FALSE, ttl |-> FALSE, status |-> FALSE, config |-> FALSE,
     extra |-> FALSE]

\* what createInitialMemberStructure builds: the directory with its TTL, the
\* status leaf and the empty config directory, and no other child
FullDir ==
    [dir |-> TRUE, ttl |-> TRUE, status |-> TRUE, config |-> TRUE,
     extra |-> FALSE]

\* a watch event on the key cluster/members/<member>[/<leaf>]
Event(action, isDir, member, leaf) ==
    [action |-> action, dir |-> isDir, member |-> member, leaf |-> leaf]

NoEvent == Event("none", FALSE, "none", "")

\* path.Base(resp.Node.Key)
pathBase(e) == IF e.leaf = "" THEN e.member ELSE e.leaf

\* the switch of runMemberMonitor without the test on the basename
publishes_anyDir(e) ==
    CASE e.action = "set" -> e.dir
      [] e.action = "expire" -> TRUE
      [] OTHER -> FALSE

\* the switch of runMemberMonitor with a default case that publishes
publishes_everyAction(e) ==
    CASE e.action = "set" -> ~(~e.dir \/ pathBase(e) = "config")
      [] OTHER -> TRUE

\* runMemberMonitor's switch on resp.Action: does this event make it send
\* true on DistributeChan
publishes(e) ==
    CASE e.action = "set" -> ~(~e.dir \/ pathBase(e) = "config")
      [] e.action = "expire" -> TRUE
      [] OTHER -> FALSE

\* the creation of a member directory as a watcher sees it
IsJoin(e, m) == e.action = "set" /\ e.dir /\ e.leaf = "" /\ e.member = m

\* the watchers that have a position in the event history
Positioned(cur) == {n \in Nodes : cur[n] # -1}

Min(S) == CHOOSE x \in S : \A y \in S : x <= y

\* events every positioned watcher has consumed are forgotten
Consumed(log, cur) ==
    IF Positioned(cur) = {} THEN Len(log)
    ELSE Min({cur[n] : n \in Positioned(cur)})

TrimLog(log, cur) == SubSeq(log, Consumed(log, cur) + 1, Len(log))

TrimCursor(log, cur) ==
    [n \in Nodes |-> IF cur[n] = -1 THEN -1 ELSE cur[n] - Consumed(log, cur)]

\* the store records the events evs, in order
Emit(evs) ==
    /\ Len(events) + Len(evs) <= MaxEvents
    /\ events' = TrimLog(events \o evs, cursor)
    /\ cursor' = TrimCursor(events \o evs, cursor)
    /\ owed' = [n \in Nodes |-> [m \in Nodes |->
                  IF cursor[n] # -1
                  THEN owed[n][m]
                       + Cardinality({i \in 1 .. Len(evs) : IsJoin(evs[i], m)})
                  ELSE owed[n][m]]]

\* member-directory creations of m the watcher of n has still to consume
PendingJoins(n, m) ==
    IF cursor[n] = -1 THEN 0
    ELSE Cardinality({i \in cursor[n] + 1 .. Len(events) : IsJoin(events[i], m)})

----------------------------------------------------------------------------
Init ==
    /\ director = NoBytes
    /\ storeUp = TRUE
    /\ alive = [n \in Nodes |-> TRUE]
    /\ DirectorState = [n \in Nodes |-> FALSE]
    /\ DirectorLock = [n \in Nodes |-> FALSE]
    /\ dmPc = [n \in Nodes |-> "idle"]
    /\ obs = [n \in Nodes |-> Nil]
    /\ dhPc = [n \in Nodes |-> "idle"]
    /\ timer = [n \in Nodes |-> [dm |-> 0, dh |-> 0]]
    /\ StateChan = [n \in Nodes |-> FALSE]
    /\ members = [m \in Nodes |-> NoDir]
    /\ events = <<>>
    /\ cursor = [n \in Nodes |-> -1]
    /\ mhPc = [n \in Nodes |-> "exists"]
    /\ refreshing = [n \in Nodes |-> FALSE]
    /\ initFinished = [n \in Nodes |-> FALSE]
    /\ mmPc = [n \in Nodes |-> "off"]
    /\ mmEvent = [n \in Nodes |-> NoEvent]
    /\ owed = [n \in Nodes |-> [m \in Nodes |-> 0]]
    /\ stopped = [n \in Nodes |-> {}]

\* setDirectorState sending on StateChan only when the new value is true
setDirectorState_silentStop(n, newState) ==
    /\ ~DirectorLock[n]
    /\ DirectorLock' = [DirectorLock EXCEPT ![n] = newState]
    /\ DirectorState' = [DirectorState EXCEPT ![n] = newState]

\* setDirectorState raising the flag whatever the value it is given
setDirectorState_alwaysTrue(n, newState) ==
    /\ ~DirectorLock[n]
    /\ DirectorLock' = [DirectorLock EXCEPT ![n] = TRUE]
    /\ DirectorState' = [DirectorState EXCEPT ![n] = TRUE]

\* setDirectorState assigning the flag without taking DirectorLock
setDirectorState_unlocked(n, newState) ==
    /\ ~DirectorLock[n]
    /\ DirectorLock' = DirectorLock
    /\ DirectorState' = [DirectorState EXCEPT ![n] = newState]

\* setDirectorState up to the send: lock, assign, offer the value on StateChan
setDirectorState(n, newState) ==
    /\ ~DirectorLock[n]
    /\ DirectorLock' = [DirectorLock EXCEPT ![n] = TRUE]
    /\ DirectorState' = [DirectorState EXCEPT ![n] = newState]

\* getState: Get cluster/director and unmarshal it; an error ends the iteration
getState(n) ==
    /\ alive[n] /\ dmPc[n] = "idle"
    /\ IF storeUp
       THEN /\ obs' = [obs EXCEPT ![n] =
                         IF director = NoBytes THEN Nil ELSE Unmarshal(director)]
            /\ dmPc' = [dmPc EXCEPT ![n] = "handle"]
       ELSE UNCHANGED <<obs, dmPc>>
    /\ UNCHANGED <<director, storeUp, alive, DirectorState, DirectorLock, dhPc,
                   StateChan>>
    /\ UNCHANGED memberVars

\* runDirectorMonitor: the looper starts an iteration at any moment
DMObserve(n) ==
    /\ getState(n)
    /\ UNCHANGED timer

\* runDirectorMonitor, handleState and changeState up to the store write
DMHandle(n) ==
    /\ alive[n] /\ dmPc[n] = "handle"
    /\ ~DirectorLock[n]
    /\ LET h == handleState(n, obs[n], amDirector(n))
       IN  CASE h.action = "NONE" ->
                  /\ dmPc' = [dmPc EXCEPT ![n] = "idle"]
                  /\ obs' = [obs EXCEPT ![n] = Nil]
                  /\ UNCHANGED <<director, DirectorState, DirectorLock>>
             [] h.action = "STOP" ->
                  /\ setDirectorState(n, FALSE)
                  /\ dmPc' = [dmPc EXCEPT ![n] = "send"]
                  /\ obs' = [obs EXCEPT ![n] = Nil]
                  /\ UNCHANGED director
             [] h.action = "START" ->
                  LET w == updateState(n, obs[n], h.etcdAction)
                  IN  /\ IF w.ok
                         THEN /\ director' = w.value
                              /\ obs' = [m \in Nodes |->
                                           IF m = n THEN Nil ELSE Supersede(obs[m])]
                              /\ dmPc' = [dmPc EXCEPT ![n] = "start"]
                         ELSE /\ dmPc' = [dmPc EXCEPT ![n] = "idle"]
                              /\ obs' = [obs EXCEPT ![n] = Nil]
                              /\ UNCHANGED director
                      /\ UNCHANGED <<DirectorState, DirectorLock>>
    /\ UNCHANGED <<storeUp, alive, dhPc, timer, StateChan>>
    /\ UNCHANGED memberVars

\* changeState(START) writing the record once more before it sets the flag
DMStart_rewrite(n) ==
    /\ alive[n] /\ dmPc[n] = "start"
    /\ setDirectorState(n, TRUE)
    /\ dmPc' = [dmPc EXCEPT ![n] = "send"]
    /\ director' = IF storeUp THEN Marshal(newDirectorJSON(n)) ELSE director
    /\ obs' = [m \in Nodes |-> Supersede(obs[m])]
    /\ UNCHANGED <<storeUp, alive, dhPc, timer, StateChan>>
    /\ UNCHANGED memberVars

\* changeState(START) after a successful write: setDirectorState(true)
DMStart(n) ==
    /\ alive[n] /\ dmPc[n] = "start"
    /\ setDirectorState(n, TRUE)
    /\ dmPc' = [dmPc EXCEPT ![n] = "send"]
    /\ UNCHANGED <<director, storeUp, alive, obs, dhPc, timer, StateChan>>
    /\ UNCHANGED memberVars

\* the owner of StateChan receives the value; setDirectorState unlocks and
\* the DirectorMonitor iteration returns
StateRecv(n) ==
    /\ alive[n] /\ dmPc[n] = "send" /\ DirectorLock[n]
    /\ StateChan' = [StateChan EXCEPT ![n] = DirectorState[n]]
    /\ DirectorLock' = [DirectorLock EXCEPT ![n] = FALSE]
    /\ dmPc' = [dmPc EXCEPT ![n] = "idle"]
    /\ UNCHANGED <<director, storeUp, alive, DirectorState, obs, dhPc, timer>>
    /\ UNCHANGED memberVars

\* runDirectorHeartbeat going on to its write without asking amDirector()
heartbeatGate_ungated(n) ==
    /\ alive[n] /\ dhPc[n] = "idle"
    /\ ~DirectorLock[n]
    /\ dhPc' = [dhPc EXCEPT ![n] = "write"]
    /\ UNCHANGED <<director, storeUp, alive, DirectorState, DirectorLock, dmPc,
                   obs, StateChan>>
    /\ UNCHANGED memberVars

\* runDirectorHeartbeat: the amDirector() gate of one iteration
heartbeatGate(n) ==
    /\ alive[n] /\ dhPc[n] = "idle"
    /\ ~DirectorLock[n]
    /\ dhPc' = [dhPc EXCEPT ![n] = IF amDirector(n) THEN "write" ELSE "idle"]
    /\ UNCHANGED <<director, storeUp, alive, DirectorState, DirectorLock, dmPc,
                   obs, StateChan>>
    /\ UNCHANGED memberVars

DHTick(n) ==
    /\ heartbeatGate(n)
    /\ UNCHANGED timer

\* runDirectorHeartbeat giving the role up when its write fails
DHWrite_stepDown(n) ==
    /\ alive[n] /\ dhPc[n] = "write"
    /\ LET w == sendDirectorHeartbeat(n)
       IN  IF w.ok
           THEN /\ director' = w.value
                /\ obs' = [m \in Nodes |-> Supersede(obs[m])]
                /\ UNCHANGED DirectorState
           ELSE /\ DirectorState' = [DirectorState EXCEPT ![n] = FALSE]
                /\ UNCHANGED <<director, obs>>
    /\ dhPc' = [dhPc EXCEPT ![n] = "idle"]
    /\ UNCHANGED <<storeUp, alive, DirectorLock, dmPc, timer, StateChan>>
    /\ UNCHANGED memberVars

\* runDirectorHeartbeat: the write of sendDirectorHeartbeat
DHWrite(n) ==
    /\ alive[n] /\ dhPc[n] = "write"
    /\ LET w == sendDirectorHeartbeat(n)
       IN  IF w.ok
           THEN /\ director' = w.value
                /\ obs' = [m \in Nodes |-> Supersede(obs[m])]
           ELSE UNCHANGED <<director, obs>>
    /\ dhPc' = [dhPc EXCEPT ![n] = "idle"]
    /\ UNCHANGED <<storeUp, alive, DirectorState, DirectorLock, dmPc, timer,
                   StateChan>>
    /\ UNCHANGED memberVars

\* the store retires cluster/director when its TTL has run out
TTLExpire ==
    /\ director # NoBytes
    /\ director.age >= HeartbeatTimeout
    /\ director' = NoBytes
    /\ obs' = [m \in Nodes |-> Supersede(obs[m])]
    /\ UNCHANGED <<storeUp, alive, DirectorState, DirectorLock, dmPc, dhPc,
                   timer, StateChan>>
    /\ UNCHANGED memberVars

Older(a) == IF a < AgeCap THEN a + 1 ELSE AgeCap

\* wall-clock time advances by one HeartbeatInterval
Elapse ==
    /\ director' = IF director = NoBytes THEN NoBytes
                   ELSE [director EXCEPT !.age = Older(@)]
    /\ obs' = [n \in Nodes |->
                 IF obs[n] = Nil THEN Nil ELSE [obs[n] EXCEPT !.age = Older(@)]]
    /\ UNCHANGED <<storeUp, alive, DirectorState, DirectorLock, dmPc, dhPc,
                   StateChan>>
    /\ UNCHANGED memberVars

Tick ==
    /\ Elapse
    /\ UNCHANGED timer

\* the store stops answering / answers again
StoreFail ==
    /\ storeUp
    /\ storeUp' = FALSE
    /\ UNCHANGED <<director, alive, DirectorState, DirectorLock, dmPc, obs,
                   dhPc, timer, StateChan>>
    /\ UNCHANGED memberVars

StoreRecover ==
    /\ ~storeUp
    /\ storeUp' = TRUE
    /\ UNCHANGED <<director, alive, DirectorState, DirectorLock, dmPc, obs,
                   dhPc, timer, StateChan>>
    /\ UNCHANGED memberVars

\* the process of node n ends: its goroutines, flag and channels are gone
Exit(n) ==
    /\ alive' = [alive EXCEPT ![n] = FALSE]
    /\ DirectorState' = [DirectorState EXCEPT ![n] = FALSE]
    /\ DirectorLock' = [DirectorLock EXCEPT ![n] = FALSE]
    /\ dmPc' = [dmPc EXCEPT ![n] = "idle"]
    /\ dhPc' = [dhPc EXCEPT ![n] = "idle"]
    /\ obs' = [obs EXCEPT ![n] = Nil]
    /\ timer' = [timer EXCEPT ![n] = [dm |-> 0, dh |-> 0]]
    /\ StateChan' = [StateChan EXCEPT ![n] = FALSE]
    /\ mhPc' = [mhPc EXCEPT ![n] = "exists"]
    /\ refreshing' = [refreshing EXCEPT ![n] = FALSE]
    /\ initFinished' = [initFinished EXCEPT ![n] = FALSE]
    /\ mmPc' = [mmPc EXCEPT ![n] = "off"]
    /\ mmEvent' = [mmEvent EXCEPT ![n] = NoEvent]
    /\ owed' = [owed EXCEPT ![n] = [m \in Nodes |-> 0]]
    /\ stopped' = [stopped EXCEPT ![n] = {}]
    /\ events' = TrimLog(events, [cursor EXCEPT ![n] = -1])
    /\ cursor' = TrimCursor(events, [cursor EXCEPT ![n] = -1])
    /\ UNCHANGED <<director, storeUp, members>>

\* the process of node n is killed while another node keeps running
Kill(n) ==
    /\ alive[n]
    /\ \E m \in Nodes \ {n} : alive[m]
    /\ Exit(n)

\* the process of node n is started again: New() and Start()
Restart(n) ==
    /\ ~alive[n]
    /\ alive' = [alive EXCEPT ![n] = TRUE]
    /\ UNCHANGED <<director, storeUp, DirectorState, DirectorLock, dmPc, obs,
                   dhPc, timer, StateChan>>
    /\ UNCHANGED memberVars

Next ==
    \/ \E n \in Nodes : DMObserve(n)
    \/ \E n \in Nodes : DMHandle(n)
    \/ \E n \in Nodes : DMStart(n)
    \/ \E n \in Nodes : StateRecv(n)
    \/ \E n \in Nodes : DHTick(n)
    \/ \E n \in Nodes : DHWrite(n)
    \/ TTLExpire
    \/ Tick
    \/ StoreFail
    \/ StoreRecover
    \/ \E n \in Nodes : Kill(n)
    \/ \E n \in Nodes : Restart(n)

Spec == Init /\ [][Next]_vars

----------------------------------------------------------------------------
\* runMemberHeartbeat and runMemberMonitor

\* log.Fatalf in runMemberHeartbeat: the process exits
Fatal(n) == Exit(n)

\* createInitialMemberStructure: KeyExists(memberDir)
MHExists(n) ==
    /\ alive[n] /\ mhPc[n] = "exists"
    /\ IF storeUp
       THEN /\ mhPc' = [mhPc EXCEPT ![n] =
                          IF members[n].dir THEN "delete" ELSE "mkdir"]
            /\ UNCHANGED <<storeUp, alive, stopped, electionVars, refreshing, members, events,
                           cursor, initFinished, mmPc, mmEvent, owed>>
       ELSE Fatal(n)

\* createInitialMemberStructure with a Delete that is not recursive: it
\* removes the status leaf and leaves the other children
MHDelete_leafOnly(n) ==
    /\ alive[n] /\ mhPc[n] = "delete"
    /\ IF storeUp /\ members[n].dir
       THEN /\ members' = [members EXCEPT ![n].status = FALSE]
            /\ Emit(<<Event("delete", FALSE, n, "status")>>)
            /\ mhPc' = [mhPc EXCEPT ![n] = "mkdir"]
            /\ UNCHANGED <<storeUp, alive, stopped, electionVars, refreshing,
                           initFinished, mmPc, mmEvent>>
       ELSE Fatal(n)

\* createInitialMemberStructure: Delete(memberDir, true)
MHDelete(n) ==
    /\ alive[n] /\ mhPc[n] = "delete"
    /\ IF storeUp /\ members[n].dir
       THEN /\ members' = [members EXCEPT ![n] = NoDir]
            /\ Emit(<<Event("delete", TRUE, n, "")>>)
            /\ mhPc' = [mhPc EXCEPT ![n] = "mkdir"]
            /\ UNCHANGED <<storeUp, alive, stopped, electionVars, refreshing, initFinished, mmPc, mmEvent>>
       ELSE Fatal(n)

\* createInitialMemberStructure: Set(memberDir, Dir, TTLSec: heartbeatTimeout)
MHMkdir(n) ==
    /\ alive[n] /\ mhPc[n] = "mkdir"
    /\ IF storeUp
       THEN /\ members' = [members EXCEPT ![n] =
                             [NoDir EXCEPT !.dir = TRUE, !.ttl = TRUE]]
            /\ Emit(<<Event("set", TRUE, n, "")>>)
            /\ mhPc' = [mhPc EXCEPT ![n] = "status"]
            /\ UNCHANGED <<storeUp, alive, stopped, electionVars, refreshing, initFinished, mmPc, mmEvent>>
       ELSE Fatal(n)

\* a Set of a key below cluster/members/<m>: the store creates the missing
\* parent (without TTL) with it
setBelow(m) ==
    IF members[m].dir THEN members[m] ELSE [NoDir EXCEPT !.dir = TRUE]

\* Set(memberDir + "/status", memberJSON)
setStatus(m) == [setBelow(m) EXCEPT !.status = TRUE]

\* Set(memberDir + "/config", Dir)
setConfig(m) == [setBelow(m) EXCEPT !.config = TRUE]

\* createInitialMemberStructure: the initial member status
MHStatus(n) ==
    /\ alive[n] /\ mhPc[n] = "status"
    /\ IF storeUp
       THEN /\ members' = [members EXCEPT ![n] = setStatus(n)]
            /\ Emit(<<Event("set", FALSE, n, "status")>>)
            /\ mhPc' = [mhPc EXCEPT ![n] = "config"]
            /\ UNCHANGED <<storeUp, alive, stopped, electionVars, refreshing, initFinished, mmPc, mmEvent>>
       ELSE Fatal(n)

\* createInitialMemberStructure: Set(memberDir + "/config", Dir, TTLSec: 0)
MHConfig(n) ==
    /\ alive[n] /\ mhPc[n] = "config"
    /\ IF storeUp
       THEN /\ members' = [members EXCEPT ![n] = setConfig(n)]
            /\ Emit(<<Event("set", TRUE, n, "config")>>)
            /\ mhPc' = [mhPc EXCEPT ![n] = "signal"]
            /\ UNCHANGED <<storeUp, alive, stopped, electionVars, refreshing, initFinished, mmPc, mmEvent>>
       ELSE Fatal(n)

\* runMemberHeartbeat: c.initFinished <- true, then the looper starts
MHSignal(n) ==
    /\ alive[n] /\ mhPc[n] = "signal"
    /\ initFinished' = [initFinished EXCEPT ![n] = TRUE]
    /\ mhPc' = [mhPc EXCEPT ![n] = "loop"]
    /\ UNCHANGED <<storeUp, alive, stopped, electionVars, refreshing, members, events, cursor,
                   mmPc, mmEvent, owed>>

\* Start launching runMemberMonitor without receiving from initFinished
LaunchMemberMonitor_early(n) ==
    /\ alive[n] /\ mmPc[n] = "off"
    /\ initFinished' = [initFinished EXCEPT ![n] = FALSE]
    /\ mmPc' = [mmPc EXCEPT ![n] = "gate"]
    /\ UNCHANGED <<storeUp, alive, stopped, electionVars, refreshing, members, events, cursor,
                   mhPc, mmEvent, owed>>

\* Start: <-c.initFinished, go c.runMemberMonitor(), NewWatcher
LaunchMemberMonitor(n) ==
    /\ alive[n] /\ initFinished[n] /\ mmPc[n] = "off"
    /\ initFinished' = [initFinished EXCEPT ![n] = FALSE]
    /\ mmPc' = [mmPc EXCEPT ![n] = "gate"]
    /\ UNCHANGED <<storeUp, alive, stopped, electionVars, refreshing, members, events, cursor,
                   mhPc, mmEvent, owed>>

\* runMemberHeartbeat, one iteration: write the status (create-parents), then
\* the Refresh it spawns gives the directory a fresh TTL; only the status
\* write is reported to watchers
MHTick(n) ==
    /\ alive[n] /\ mhPc[n] = "loop"
    /\ IF storeUp
       THEN /\ members' = [members EXCEPT ![n] = [setStatus(n) EXCEPT !.ttl = TRUE]]
            /\ Emit(<<Event("set", FALSE, n, "status")>>)
       ELSE UNCHANGED <<members, events, cursor, owed>>
    /\ UNCHANGED <<storeUp, alive, stopped, electionVars, refreshing, mhPc, initFinished, mmPc,
                   mmEvent>>

\* runMemberHeartbeat: the looper calls the function of the loop
MHLoop(n) ==
    /\ alive[n] /\ mhPc[n] = "loop"
    /\ mhPc' = [mhPc EXCEPT ![n] = "write"]
    /\ UNCHANGED <<storeUp, alive, stopped, electionVars, refreshing, members, events,
                   cursor, initFinished, mmPc, mmEvent, owed>>

\* runMemberHeartbeat's function of the loop treating a failed status write
\* like a failure of the initial creation
MHWrite_fatal(n) ==
    /\ alive[n] /\ mhPc[n] = "write"
    /\ IF storeUp
       THEN /\ members' = [members EXCEPT ![n] = setStatus(n)]
            /\ Emit(<<Event("set", FALSE, n, "status")>>)
            /\ refreshing' = [refreshing EXCEPT ![n] = TRUE]
            /\ mhPc' = [mhPc EXCEPT ![n] = "loop"]
            /\ UNCHANGED <<storeUp, alive, stopped, electionVars, initFinished, mmPc,
                           mmEvent>>
       ELSE Fatal(n)

\* runMemberHeartbeat, the function of the loop: Set of the status with
\* create-parents; on an error it returns, otherwise it spawns the goroutine
\* that calls Refresh, and returns
MHWrite(n) ==
    /\ alive[n] /\ mhPc[n] = "write"
    /\ IF storeUp
       THEN /\ members' = [members EXCEPT ![n] = setStatus(n)]
            /\ Emit(<<Event("set", FALSE, n, "status")>>)
            /\ refreshing' = [refreshing EXCEPT ![n] = TRUE]
       ELSE UNCHANGED <<members, events, cursor, owed, refreshing>>
    /\ mhPc' = [mhPc EXCEPT ![n] = "loop"]
    /\ UNCHANGED <<storeUp, alive, stopped, electionVars, initFinished, mmPc, mmEvent>>

\* the goroutine of one iteration: Refresh(memberDir, heartbeatTimeout) gives
\* the directory a fresh TTL and is not reported to watchers; it fails when
\* the store does not answer or the directory is gone
MHRefresh(n) ==
    /\ alive[n] /\ refreshing[n]
    /\ refreshing' = [refreshing EXCEPT ![n] = FALSE]
    /\ members' = IF storeUp /\ members[n].dir
                  THEN [members EXCEPT ![n].ttl = TRUE]
                  ELSE members
    /\ UNCHANGED <<storeUp, alive, stopped, electionVars, events, cursor, mhPc,
                   initFinished, mmPc, mmEvent, owed>>

\* the store retires cluster/members/<m>: its TTL has run out, no Refresh
\* having reached the store for HeartbeatTimeout
MemberExpire(m) ==
    /\ members[m].dir /\ members[m].ttl
    /\ members' = [members EXCEPT ![m] = NoDir]
    /\ Emit(<<Event("expire", TRUE, m, "")>>)
    /\ UNCHANGED <<storeUp, alive, stopped, electionVars, refreshing, mhPc, initFinished, mmPc, mmEvent>>

\* runMemberMonitor: the amDirector() gate at the head of the loop; a
\* non-director sleeps and checks again
MMGate(n) ==
    /\ alive[n] /\ mmPc[n] = "gate"
    /\ ~DirectorLock[n]
    /\ IF amDirector(n)
       THEN /\ mmPc' = [mmPc EXCEPT ![n] = "watch"]
            /\ cursor' = [cursor EXCEPT ![n] =
                            IF @ = -1 THEN Len(events) ELSE @]
       ELSE UNCHANGED <<mmPc, cursor>>
    /\ UNCHANGED <<storeUp, alive, stopped, electionVars, refreshing, members, events, mhPc,
                   initFinished, mmEvent, owed>>

\* runMemberMonitor: watcher.Next returns an event and the switch handles it;
\* when the store does not answer it returns an error and the loop continues
MMWatch(n) ==
    /\ alive[n] /\ mmPc[n] = "watch"
    /\ IF storeUp
       THEN /\ cursor[n] < Len(events)
            /\ LET e == events[cursor[n] + 1]
                   cur == [cursor EXCEPT ![n] = @ + 1]
               IN  /\ events' = TrimLog(events, cur)
                   /\ cursor' = TrimCursor(events, cur)
                   /\ IF publishes(e)
                      THEN /\ mmPc' = [mmPc EXCEPT ![n] = "send"]
                           /\ mmEvent' = [mmEvent EXCEPT ![n] = e]
                           /\ owed' = IF e.action = "set"
                                      THEN [owed EXCEPT ![n][e.member] = @ - 1]
                                      ELSE owed
                      ELSE /\ mmPc' = [mmPc EXCEPT ![n] = "gate"]
                           /\ UNCHANGED <<mmEvent, owed>>
       ELSE /\ mmPc' = [mmPc EXCEPT ![n] = "gate"]
            /\ UNCHANGED <<events, cursor, mmEvent, owed>>
    /\ UNCHANGED <<storeUp, alive, stopped, electionVars, refreshing, members, mhPc, initFinished>>

\* the owner of DistributeChan receives the signal
DistributeRecv(n) ==
    /\ alive[n] /\ mmPc[n] = "send"
    /\ mmPc' = [mmPc EXCEPT ![n] = "gate"]
    /\ mmEvent' = [mmEvent EXCEPT ![n] = NoEvent]
    /\ UNCHANGED <<storeUp, alive, stopped, electionVars, refreshing, members, events, cursor,
                   mhPc, initFinished, owed>>

\* runDirectorMonitor, one iteration from getState to the return of
\* setDirectorState, with nothing scheduled in between
DirectorMonitorRun(n) ==
    /\ alive[n] /\ dmPc[n] = "idle" /\ ~DirectorLock[n]
    /\ storeUp
    /\ LET directorJSON == IF director = NoBytes THEN Nil ELSE Unmarshal(director)
           h == handleState(n, directorJSON, amDirector(n))
           w == updateState(n, directorJSON, h.etcdAction)
           started == h.action = "START" /\ w.ok
           sets == h.action = "STOP" \/ started
       IN  /\ director' = IF started THEN w.value ELSE director
           /\ obs' = IF started THEN [m \in Nodes |-> Supersede(obs[m])] ELSE obs
           /\ DirectorState' = IF sets THEN [DirectorState EXCEPT ![n] = started]
                                ELSE DirectorState
           /\ StateChan' = IF sets THEN [StateChan EXCEPT ![n] = started]
                            ELSE StateChan
    /\ UNCHANGED <<storeUp, alive, DirectorLock, dmPc, dhPc, timer>>
    /\ UNCHANGED memberVars

NextMembers ==
    \/ \E n \in Nodes : DirectorMonitorRun(n)
    \/ TTLExpire
    \/ Tick
    \/ \E n \in Nodes : MHExists(n)
    \/ \E n \in Nodes : MHDelete(n)
    \/ \E n \in Nodes : MHMkdir(n)
    \/ \E n \in Nodes : MHStatus(n)
    \/ \E n \in Nodes : MHConfig(n)
    \/ \E n \in Nodes : MHSignal(n)
    \/ \E n \in Nodes : LaunchMemberMonitor(n)
    \/ \E n \in Nodes : MHTick(n)
    \/ \E m \in Nodes : MemberExpire(m)
    \/ \E n \in Nodes : MMGate(n)
    \/ \E n \in Nodes : MMWatch(n)
    \/ \E n \in Nodes : DistributeRecv(n)
    \/ \E n \in Nodes : Kill(n)
    \/ \E n \in Nodes : Restart(n)

SpecMembers == Init /\ [][NextMembers]_vars

----------------------------------------------------------------------------
\* All four loops of every node beside a store that fails and recovers; time
\* stands still, so no TTL runs out.
NextLoops ==
    \/ \E n \in Nodes : DMObserve(n)
    \/ \E n \in Nodes : DMHandle(n)
    \/ \E n \in Nodes : DMStart(n)
    \/ \E n \in Nodes : StateRecv(n)
    \/ \E n \in Nodes : DHTick(n)
    \/ \E n \in Nodes : DHWrite(n)
    \/ \E n \in Nodes : MHExists(n)
    \/ \E n \in Nodes : MHDelete(n)
    \/ \E n \in Nodes : MHMkdir(n)
    \/ \E n \in Nodes : MHStatus(n)
    \/ \E n \in Nodes : MHConfig(n)
    \/ \E n \in Nodes : MHSignal(n)
    \/ \E n \in Nodes : LaunchMemberMonitor(n)
    \/ \E n \in Nodes : MHLoop(n)
    \/ \E n \in Nodes : MHWrite(n)
    \/ \E n \in Nodes : MHRefresh(n)
    \/ \E n \in Nodes : MMGate(n)
    \/ \E n \in Nodes : MMWatch(n)
    \/ \E n \in Nodes : DistributeRecv(n)
    \/ StoreFail
    \/ StoreRecover
    \/ \E n \in Nodes : Restart(n)

SpecLoops == Init /\ [][NextLoops]_vars

----------------------------------------------------------------------------
\* MemberMonitor beside other clients of the store: a director is watching
\* cluster/members/ and the store hands it one event, of any kind.

\* the actions the store reports to a watcher
WatchActions == {"set", "expire", "delete", "update"}

\* the last path element of a key under cluster/members/<m>
Leaves == {"", "status", "config"}

\* every engine is started; node d is the director and its watch is open,
\* behind one event that it has not been handed yet
InitFilter ==
    \E d \in Nodes :
    \E a \in WatchActions, isDir \in BOOLEAN, k \in Nodes, l \in Leaves :
        /\ director = Marshal(newDirectorJSON(d))
        /\ storeUp = TRUE
        /\ alive = [n \in Nodes |-> TRUE]
        /\ DirectorState = [n \in Nodes |-> n = d]
        /\ DirectorLock = [n \in Nodes |-> FALSE]
        /\ dmPc = [n \in Nodes |-> "idle"]
        /\ obs = [n \in Nodes |-> Nil]
        /\ dhPc = [n \in Nodes |-> "idle"]
        /\ timer = [n \in Nodes |-> [dm |-> 0, dh |-> 0]]
        /\ StateChan = [n \in Nodes |-> n = d]
        /\ members = [m \in Nodes |-> FullDir]
        /\ events = <<Event(a, isDir, k, l)>>
        /\ cursor = [n \in Nodes |-> IF n = d THEN 0 ELSE -1]
        /\ mhPc = [n \in Nodes |-> "loop"]
        /\ refreshing = [n \in Nodes |-> FALSE]
        /\ initFinished = [n \in Nodes |-> TRUE]
        /\ mmPc = [n \in Nodes |-> IF n = d THEN "watch" ELSE "gate"]
        /\ mmEvent = [n \in Nodes |-> NoEvent]
        /\ owed = [n \in Nodes |-> [m \in Nodes |->
                      IF n = d /\ IsJoin(Event(a, isDir, k, l), m)
                      THEN 1 ELSE 0]]
        /\ stopped = [n \in Nodes |-> {}]

NextFilter ==
    \/ \E n \in Nodes : MMGate(n)
    \/ \E n \in Nodes : MMWatch(n)
    \/ \E n \in Nodes : DistributeRecv(n)

SpecFilter == InitFilter /\ [][NextFilter]_vars

----------------------------------------------------------------------------
\* Start-up of MemberHeartbeat over whatever an earlier run left under
\* cluster/members/<m>; time stands still, so no TTL runs out meanwhile.

\* what the store may hold under cluster/members/<m> when a process starts
PriorContents ==
    {NoDir} \cup
    {[dir |-> TRUE, ttl |-> t, status |-> st, config |-> cf, extra |-> x] :
        t \in BOOLEAN, st \in BOOLEAN, cf \in BOOLEAN, x \in BOOLEAN}

InitStartup ==
    /\ director = NoBytes
    /\ storeUp = TRUE
    /\ alive = [n \in Nodes |-> TRUE]
    /\ DirectorState = [n \in Nodes |-> FALSE]
    /\ DirectorLock = [n \in Nodes |-> FALSE]
    /\ dmPc = [n \in Nodes |-> "idle"]
    /\ obs = [n \in Nodes |-> Nil]
    /\ dhPc = [n \in Nodes |-> "idle"]
    /\ timer = [n \in Nodes |-> [dm |-> 0, dh |-> 0]]
    /\ StateChan = [n \in Nodes |-> FALSE]
    /\ members \in [Nodes -> PriorContents]
    /\ events = <<>>
    /\ cursor = [n \in Nodes |-> -1]
    /\ mhPc = [n \in Nodes |-> "exists"]
    /\ refreshing = [n \in Nodes |-> FALSE]
    /\ initFinished = [n \in Nodes |-> FALSE]
    /\ mmPc = [n \in Nodes |-> "off"]
    /\ mmEvent = [n \in Nodes |-> NoEvent]
    /\ owed = [n \in Nodes |-> [m \in Nodes |-> 0]]
    /\ stopped = [n \in Nodes |-> {}]

NextStartup ==
    \/ \E n \in Nodes : MHExists(n)
    \/ \E n \in Nodes : MHDelete(n)
    \/ \E n \in Nodes : MHMkdir(n)
    \/ \E n \in Nodes : MHStatus(n)
    \/ \E n \in Nodes : MHConfig(n)
    \/ \E n \in Nodes : MHSignal(n)
    \/ \E n \in Nodes : LaunchMemberMonitor(n)
    \/ StoreFail
    \/ StoreRecover
    \/ \E n \in Nodes : Restart(n)

SpecStartup == InitStartup /\ [][NextStartup]_vars

----------------------------------------------------------------------------
\* Stop() and the end of the loops

\* one statement of Stop(): with the signals of issued behind it, it issues
\* signal
StopStep(n, issued, signal) ==
    /\ alive[n] /\ mmPc[n] # "off" /\ stopped[n] = issued
    /\ stopped' = [stopped EXCEPT ![n] = issued \cup {signal}]
    /\ UNCHANGED <<storeUp, alive, electionVars, members, events, cursor, mhPc,
                   refreshing, initFinished, mmPc, mmEvent, owed>>

\* Stop() on an engine whose Start() has returned, statement by statement:
\* DirectorMonitorLooper.Quit(), DirectorHeartbeatLooper.Quit(),
\* Component.Cancel(), MemberHeartbeatLooper.Quit()
Stop(n) ==
    \/ StopStep(n, {}, "dm")
    \/ StopStep(n, {"dm"}, "dh")
    \/ StopStep(n, {"dm", "dh"}, "ctx")
    \/ StopStep(n, {"dm", "dh", "ctx"}, "mh")

\* DirectorMonitorLooper takes the Quit signal between two iterations
DMQuit(n) ==
    /\ alive[n] /\ "dm" \in stopped[n] /\ dmPc[n] = "idle"
    /\ dmPc' = [dmPc EXCEPT ![n] = "done"]
    /\ UNCHANGED <<director, storeUp, alive, DirectorState, DirectorLock, obs,
                   dhPc, timer, StateChan>>
    /\ UNCHANGED memberVars

\* DirectorHeartbeatLooper takes the Quit signal between two iterations
DHQuit(n) ==
    /\ alive[n] /\ "dh" \in stopped[n] /\ dhPc[n] = "idle"
    /\ dhPc' = [dhPc EXCEPT ![n] = "done"]
    /\ UNCHANGED <<director, storeUp, alive, DirectorState, DirectorLock, dmPc,
                   obs, timer, StateChan>>
    /\ UNCHANGED memberVars

\* MemberHeartbeatLooper takes the Quit signal between two iterations
MHQuit(n) ==
    /\ alive[n] /\ "mh" \in stopped[n] /\ mhPc[n] = "loop"
    /\ mhPc' = [mhPc EXCEPT ![n] = "done"]
    /\ UNCHANGED <<storeUp, alive, stopped, electionVars, refreshing, members,
                   events, cursor, initFinished, mmPc, mmEvent, owed>>

\* runMemberMonitor: watcher.Next(ctx) returns "context canceled" and the
\* loop breaks
MMCancel(n) ==
    /\ alive[n] /\ "ctx" \in stopped[n] /\ mmPc[n] = "watch"
    /\ mmPc' = [mmPc EXCEPT ![n] = "done"]
    /\ UNCHANGED <<storeUp, alive, stopped, electionVars, refreshing, members,
                   events, cursor, mhPc, initFinished, mmEvent, owed>>

\* The engine of every node is started, runs and is stopped; the store stays
\* reachable and time stands still.
NextStop ==
    \/ \E n \in Nodes : DirectorMonitorRun(n)
    \/ \E n \in Nodes : DHTick(n)
    \/ \E n \in Nodes : DHWrite(n)
    \/ \E n \in Nodes : MHExists(n)
    \/ \E n \in Nodes : MHMkdir(n)
    \/ \E n \in Nodes : MHStatus(n)
    \/ \E n \in Nodes : MHConfig(n)
    \/ \E n \in Nodes : MHSignal(n)
    \/ \E n \in Nodes : LaunchMemberMonitor(n)
    \/ \E n \in Nodes : MHTick(n)
    \/ \E n \in Nodes : MMGate(n)
    \/ \E n \in Nodes : MMWatch(n)
    \/ \E n \in Nodes : DistributeRecv(n)
    \/ \E n \in Nodes : Stop(n)
    \/ \E n \in Nodes : DMQuit(n)
    \/ \E n \in Nodes : DHQuit(n)
    \/ \E n \in Nodes : MHQuit(n)
    \/ \E n \in Nodes : MMCancel(n)

\* every goroutine keeps being scheduled, the channels are drained, and a
\* looper holding a Quit signal takes it at one of its iterations
FairnessStop ==
    \A n \in Nodes :
        /\ WF_vars(Stop(n))
        /\ WF_vars(DHWrite(n))
        /\ WF_vars(MMGate(n))
        /\ WF_vars(MMWatch(n))
        /\ WF_vars(DistributeRecv(n))
        /\ SF_vars(DMQuit(n))
        /\ SF_vars(DHQuit(n))
        /\ SF_vars(MHQuit(n))
        /\ SF_vars(MMCancel(n))

SpecStop == Init /\ [][NextStop]_vars /\ FairnessStop

----------------------------------------------------------------------------
\* Timed scheduling: every looper runs its function once per
\* HeartbeatInterval, an iteration takes no time, the store is reachable.

\* runDirectorMonitor under the looper's timer
TimedDMObserve(n) ==
    /\ timer[n].dm = 0
    /\ getState(n)
    /\ timer' = [timer EXCEPT ![n].dm = HeartbeatInterval]

\* runDirectorHeartbeat under the looper's timer
TimedDHTick(n) ==
    /\ timer[n].dh = 0
    /\ heartbeatGate(n)
    /\ timer' = [timer EXCEPT ![n].dh = HeartbeatInterval]

\* time passes once every due iteration has run to its end
TimedTick ==
    /\ \A n \in Nodes :
          alive[n] => /\ timer[n].dm > 0 /\ timer[n].dh > 0
                      /\ dmPc[n] = "idle" /\ dhPc[n] = "idle"
    /\ Elapse
    /\ timer' = [n \in Nodes |->
                   IF alive[n]
                   THEN [dm |-> timer[n].dm - 1, dh |-> timer[n].dh - 1]
                   ELSE timer[n]]

NextTimed ==
    \/ \E n \in Nodes : TimedDMObserve(n)
    \/ \E n \in Nodes : DMHandle(n)
    \/ \E n \in Nodes : DMStart(n)
    \/ \E n \in Nodes : StateRecv(n)
    \/ \E n \in Nodes : TimedDHTick(n)
    \/ \E n \in Nodes : DHWrite(n)
    \/ TTLExpire
    \/ TimedTick
    \/ \E n \in Nodes : Kill(n)
    \/ \E n \in Nodes : Restart(n)

SpecTimed == Init /\ [][NextTimed]_vars

\* Timed scheduling beside a store that fails and recovers
NextRace ==
    \/ NextTimed
    \/ StoreFail
    \/ StoreRecover

SpecRace == Init /\ [][NextRace]_vars

----------------------------------------------------------------------------
\* Fair scheduling: the store stays reachable, no process is started again,
\* every loop of a running process keeps iterating, StateChan is drained,
\* time passes and the store applies TTLs.

NextFair ==
    \/ \E n \in Nodes : DMObserve(n)
    \/ \E n \in Nodes : DMHandle(n)
    \/ \E n \in Nodes : DMStart(n)
    \/ \E n \in Nodes : StateRecv(n)
    \/ \E n \in Nodes : DHTick(n)
    \/ \E n \in Nodes : DHWrite(n)
    \/ TTLExpire
    \/ Tick
    \/ \E n \in Nodes : Kill(n)

Fairness ==
    /\ \A n \in Nodes :
          /\ WF_vars(DMObserve(n))
          /\ WF_vars(DMHandle(n))
          /\ WF_vars(DMStart(n))
          /\ WF_vars(StateRecv(n))
          /\ WF_vars(DHTick(n))
          /\ WF_vars(DHWrite(n))
    /\ WF_vars(TTLExpire)
    /\ WF_vars(Tick)

FairSpec == Init /\ [][NextFair]_vars /\ Fairness

----------------------------------------------------------------------------
\* An operator overwrites cluster/director by hand with a payload naming
\* member m, in any layout that json.Unmarshal accepts.
OperatorWrite(m, f) ==
    /\ storeUp
    /\ director' = [member |-> m, stamp |-> "cur", age |-> 0, form |-> f]
    /\ obs' = [n \in Nodes |-> Supersede(obs[n])]
    /\ UNCHANGED <<storeUp, alive, DirectorState, DirectorLock, dmPc, dhPc,
                   timer, StateChan>>
    /\ UNCHANGED memberVars

NextOperator ==
    \/ Next
    \/ \E m \in Nodes, f \in Forms : OperatorWrite(m, f)

SpecOperator == Init /\ [][NextOperator]_vars

----------------------------------------------------------------------------
\* nodes that assert the director role
Directors == {n \in Nodes : alive[n] /\ DirectorState[n]}

\* C1 (as claimed): in every reachable state at most one node has
\* DirectorState = true, whatever the interleaving of ticks and TTL expiry.
C1_AtMostOneDirector == Cardinality(Directors) <= 1

\* C1 (amended): a node raises DirectorState only after its own write to
\* cluster/director succeeded, and that write replaces nothing but an absent
\* record, a record naming the writer, or an expired record; the flag of
\* another node may still be true at that moment.
C1_StartOnlyOverFreeRecord ==
    [][\A n \in Nodes :
          /\ (dmPc[n] = "handle" /\ dmPc'[n] = "start")
                => /\ \/ director = NoBytes
                      \/ director.member = n
                      \/ isExpired(director.age)
                   /\ director' # NoBytes
                   /\ director'.member = n /\ director'.age = 0
          /\ (~DirectorState[n] /\ DirectorState'[n])
                => dmPc[n] = "start"]_vars

\* C1: a node has taken the record over and is about to raise its flag while
\* the flag of another running node is still true
C1_TakeoverBesideDirector ==
    \E n, m \in Nodes :
        /\ n # m /\ alive[n] /\ alive[m]
        /\ dmPc[n] = "start" /\ DirectorState[m]

\* C2: a state with two or more directors is always followed by a state
\* with at most one director.
C2_SplitBrainHeals ==
    (Cardinality(Directors) >= 2) ~> (Cardinality(Directors) <= 1)

\* C3: whenever no running node is director, some running node eventually
\* has DirectorState = true.
C3_ElectionLiveness == (Directors = {}) ~> (Directors # {})

\* C3: after a node was killed no running node is director, and a running
\* node has written the record and is about to raise its flag
C3_ElectionUnderWay ==
    /\ Directors = {}
    /\ \E m \in Nodes : ~alive[m]
    /\ \E n \in Nodes : alive[n] /\ dmPc[n] = "start" /\ director.member = n

\* the payload stored now is the one node n observed: nothing was written
\* to cluster/director since getState
ObservedStillStored(n) ==
    /\ dmPc[n] = "handle" /\ obs[n] # Nil
    /\ director # NoBytes /\ Unmarshal(director) = obs[n]

\* C4: a DirectorMonitor tick that observed a record disagreeing with the
\* local flag brings them into agreement when no other write intervened and
\* the store answers: it demotes when the record names another member, and
\* when the record names this node its UPDATE succeeds and the flag is set.
C4_TickConverges ==
    [][\A n \in Nodes :
          (dmPc[n] = "handle" /\ dmPc'[n] # "handle" /\ alive'[n] /\ storeUp
             /\ ObservedStillStored(n))
          => /\ (obs[n].MemberID # n /\ DirectorState[n])
                   => ~DirectorState'[n]
             /\ (obs[n].MemberID = n /\ ~DirectorState[n])
                   => (dmPc'[n] = "start" /\ director'.member = n
                       /\ director'.age = 0)]_vars

\* C5 (as claimed): no step writes cluster/director while the record exists,
\* is not expired and names a member other than the writer.
C5_NoWriteOverLiveForeignRecord ==
    [][\A n \in Nodes :
          (/\ director' # director
           /\ director' # NoBytes
           /\ director'.member = n
           /\ director'.age = 0
           /\ director # NoBytes
           /\ director.member # n)
          => isExpired(director.age)]_vars

\* C6: under timely ticks the record of a director never turns absent or
\* expired and never names another member, so no other node can START and
\* the director is never demoted.
C6_HealthyDirectorStable ==
    \A d \in Directors :
        /\ director # NoBytes
        /\ director.member = d
        /\ director.age < HeartbeatTimeout
        /\ ~isExpired(director.age)

\* C6: another node handles its observation of the director's record, one
\* HeartbeatInterval old, while the director holds the role
C6_ObservedBesideDirector ==
    \E d \in Directors : \E n \in Nodes \ {d} :
        /\ alive[n] /\ dmPc[n] = "handle"
        /\ obs[n] # Nil /\ obs[n].MemberID = d /\ obs[n].age = HeartbeatInterval

\* C7: every change of DirectorState is published on StateChan once, with
\* the new value and in the order of the changes: a change starts the send
\* of the new value, the flag does not change while a send is pending, a
\* pending send ends only by the delivery of the flag's value, and nothing
\* else is delivered.
C7_ChangesPublishedInOrder ==
    [][\A n \in Nodes : alive'[n] =>
          /\ (DirectorState'[n] # DirectorState[n])
                => (~DirectorLock[n] /\ DirectorLock'[n])
          /\ DirectorLock[n]
                => /\ DirectorState'[n] = DirectorState[n]
                   /\ DirectorLock'[n] \/ StateChan'[n] = DirectorState[n]
          /\ (StateChan'[n] # StateChan[n])
                => (DirectorLock[n] /\ ~DirectorLock'[n])]_vars

\* C7: a demotion is being sent on StateChan after the promotion was received
C7_DemotionOnOffer ==
    \E n \in Nodes :
        alive[n] /\ DirectorLock[n] /\ ~DirectorState[n] /\ StateChan[n]

\* C8 (as claimed): StateChan carries a value only on an actual role change,
\* so a value received from it differs from the one received before.
C8_NoRepeatedValue ==
    [][\A n \in Nodes :
          (alive'[n] /\ DirectorLock[n] /\ ~DirectorLock'[n])
          => DirectorState[n] # StateChan[n]]_vars

\* C8 (amended): false is received from StateChan only after true, and true
\* is sent only by a START whose store write succeeded, be the flag already
\* true or not.
C8_FalseOnlyAfterTrue ==
    [][\A n \in Nodes : alive'[n] =>
          /\ (DirectorLock[n] /\ ~DirectorLock'[n] /\ ~DirectorState[n])
                => StateChan[n]
          /\ (~DirectorLock[n] /\ DirectorLock'[n] /\ DirectorState'[n])
                => dmPc[n] = "start"]_vars

\* C8: a node whose promotion was received is sending true again
C8_SecondTrueOnOffer ==
    \E n \in Nodes :
        alive[n] /\ DirectorLock[n] /\ DirectorState[n] /\ StateChan[n]

\* runMemberMonitor of n takes an event from its watcher in this step
Consumes(n) == mmPc[n] = "watch" /\ mmPc'[n] # "watch" /\ alive'[n]

\* the value runMemberMonitor of n sends on DistributeChan is received
Distributes(n) == mmPc[n] = "send" /\ mmPc'[n] # "send" /\ alive'[n]

\* C9 (as claimed): while DirectorState is false MemberMonitor consumes no
\* watch event and nothing of it is received from DistributeChan.
C9_IdleWhileNotDirector ==
    [][\A n \in Nodes : (Consumes(n) \/ Distributes(n)) => DirectorState[n]]_vars

\* C9 (amended): MemberMonitor issues a Watch only after reading the flag as
\* true; a Watch already issued returns one event whatever the flag has
\* become, and one signal at most is sent for it before the flag is read
\* again.
C9_WatchOnlyPastGate ==
    [][\A n \in Nodes : alive'[n] =>
          /\ (mmPc[n] # "watch" /\ mmPc'[n] = "watch")
                => (mmPc[n] = "gate" /\ DirectorState[n])
          /\ (mmPc[n] # "send" /\ mmPc'[n] = "send")
                => (mmPc[n] = "watch" /\ publishes(mmEvent'[n]))
          /\ Consumes(n) => mmPc'[n] \in {"gate", "send"}
          /\ Distributes(n) => mmPc'[n] = "gate"]_vars

\* C9: a node that is no longer director is sending a signal on DistributeChan
C9_StaleSignal ==
    \E n \in Nodes : alive[n] /\ ~DirectorState[n] /\ mmPc[n] = "send"

StartupPcs == {"exists", "delete", "mkdir", "status", "config"}

\* C11: runMemberMonitor is launched only once runMemberHeartbeat has created
\* the whole member structure and signalled it; init-complete is signalled
\* only after the last creation step; and a creation step that fails makes
\* no progress: the process ends, with nothing signalled or launched.
C11_MonitorAfterStructure ==
    [][\A n \in Nodes :
          /\ (mmPc[n] = "off" /\ mmPc'[n] # "off")
                => (mhPc[n] \in {"loop", "write"} /\ initFinished[n])
          /\ (~initFinished[n] /\ initFinished'[n]) => mhPc[n] = "signal"
          /\ (mhPc[n] \in StartupPcs /\ mhPc'[n] # mhPc[n] /\ alive'[n])
                => storeUp
          /\ (mhPc[n] \in StartupPcs /\ ~alive'[n])
                => (~initFinished'[n] /\ mmPc'[n] = "off")]_vars

\* C11: a process has ended in the middle of the creation, leaving a partial
\* structure, while the MemberMonitor of another node runs
C11_AbortedCreation ==
    \E n, m \in Nodes :
        /\ ~alive[n] /\ members[n].dir
        /\ alive[m] /\ mmPc[m] # "off"

\* C12: on a cold start of a single node with an empty store, the member
\* directory of the node exists at the moment the node first writes
\* cluster/director.
C12_MemberDirBeforeDirector ==
    [][\A n \in Nodes :
          (/\ \A m \in Nodes \ {n} : ~alive[m]
           /\ \A m \in Nodes : members[m] = NoDir \/ m = n
           /\ director = NoBytes
           /\ director' # NoBytes /\ director'.member = n)
          => members[n].dir]_vars

\* C13: every iteration of the MemberHeartbeat loop issues a Refresh of the
\* member directory's TTL, whether its status write succeeded or failed.
C13_RefreshOnEveryTick ==
    [][\A n \in Nodes :
          (mhPc[n] = "write" /\ mhPc'[n] = "loop" /\ alive'[n])
          => refreshing'[n]]_vars

\* a step that is not the fatal error of the start-up of node n
NonFatal(n) == mhPc[n] \in StartupPcs => alive'[n]

\* the START of node n whose store write is refused or does not arrive
FailedStart(n) ==
    /\ dmPc[n] = "handle"
    /\ LET h == handleState(n, obs[n], amDirector(n))
       IN  h.action = "START" /\ ~updateState(n, obs[n], h.etcdAction).ok

\* C14: no non-fatal error changes the role or ends a loop: a failed
\* observation or a failed action of DirectorMonitor, a failed heartbeat
\* write of DirectorHeartbeat, a failed status write or a failed Refresh of
\* MemberHeartbeat and a watch error of MemberMonitor each leave DirectorState
\* as it was, the process running and the loop at the head of its next
\* iteration.
C14_ErrorsKeepRoleAndLoops ==
    [][\A n \in Nodes : (alive[n] /\ NonFatal(n)) =>
          /\ (dmPc[n] = "idle" /\ ~storeUp)
                => (/\ dmPc'[n] = "idle" /\ alive'[n]
                    /\ DirectorState'[n] = DirectorState[n])
          /\ (FailedStart(n) /\ dmPc'[n] # "handle")
                => (/\ dmPc'[n] = "idle" /\ alive'[n]
                    /\ DirectorState'[n] = DirectorState[n])
          /\ (dhPc[n] = "write" /\ ~sendDirectorHeartbeat(n).ok
                /\ dhPc'[n] # "write")
                => (/\ dhPc'[n] = "idle" /\ alive'[n]
                    /\ DirectorState'[n] = DirectorState[n])
          /\ (mhPc[n] = "write" /\ ~storeUp /\ mhPc'[n] # "write")
                => (/\ mhPc'[n] = "loop" /\ alive'[n]
                    /\ DirectorState'[n] = DirectorState[n])
          /\ (refreshing[n] /\ ~refreshing'[n] /\ ~(storeUp /\ members[n].dir))
                => (/\ mhPc'[n] = mhPc[n] /\ alive'[n]
                    /\ DirectorState'[n] = DirectorState[n])
          /\ (mmPc[n] = "watch" /\ ~storeUp /\ mmPc'[n] # "watch")
                => (/\ mmPc'[n] = "gate" /\ alive'[n]
                    /\ DirectorState'[n] = DirectorState[n])]_vars

\* the store does not answer while a director is about to write its
\* heartbeat and its status, with a Refresh under way and its watch open,
\* and another node is about to START
C14_AllLoopsFacingErrors ==
    \E n, m \in Nodes :
        /\ n # m /\ ~storeUp /\ alive[n] /\ alive[m]
        /\ DirectorState[n] /\ dhPc[n] = "write" /\ mhPc[n] = "write"
        /\ refreshing[n] /\ mmPc[n] = "watch"
        /\ FailedStart(m)

\* every loop of node n has returned
Terminated(n) ==
    /\ dmPc[n] = "done" /\ dhPc[n] = "done"
    /\ mhPc[n] = "done" /\ mmPc[n] = "done"

\* C15: after Stop() on a started engine all four loops eventually
\* terminate, MemberMonitor included, whether the node's DirectorState is
\* true or false.
C15_StopTerminatesLoops ==
    \A n \in Nodes : (stopped[n] # {}) ~> Terminated(n)

\* the DirectorMonitor iteration of node n leaves handleState
Handles(n) == dmPc[n] = "handle" /\ dmPc'[n] # "handle" /\ alive'[n]

\* the iteration did START with the store action etcdAction: the write was
\* issued and, when the store accepted it, the flag is about to be set
DidStart(n, etcdAction) ==
    LET w == updateState(n, obs[n], etcdAction)
    IN  /\ DirectorState'[n] = DirectorState[n]
        /\ IF w.ok
           THEN director' = w.value /\ dmPc'[n] = "start"
           ELSE director' = director /\ dmPc'[n] = "idle"

\* the iteration did STOP: flag false, value on offer, no write
DidStop(n) ==
    /\ ~DirectorState'[n] /\ dmPc'[n] = "send"
    /\ director' = director

\* the iteration wrote nothing and left the flag alone
DidNothing(n) ==
    /\ DirectorState'[n] = DirectorState[n] /\ dmPc'[n] = "idle"
    /\ director' = director

\* C16: one DirectorMonitor tick does the action of the role table for its
\* observation and the local flag: absent -> START/CREATE; own record and
\* flag false -> START/UPDATE; foreign record and flag true -> STOP, expired
\* or not; foreign record, flag false, older than HeartbeatTimeout ->
\* START/UPDATE; foreign record, flag false, at most HeartbeatTimeout old ->
\* nothing; own record and flag true -> nothing, expired or not.
C16_RoleTable ==
    [][\A n \in Nodes : Handles(n) =>
          LET o == obs[n]
              flag == DirectorState[n]
          IN  CASE o = Nil -> DidStart(n, "CREATE")
                [] o # Nil /\ o.MemberID = n /\ ~flag -> DidStart(n, "UPDATE")
                [] o # Nil /\ o.MemberID # n /\ flag -> DidStop(n)
                [] o # Nil /\ o.MemberID # n /\ ~flag
                     /\ o.age > HeartbeatTimeout -> DidStart(n, "UPDATE")
                [] o # Nil /\ o.MemberID # n /\ ~flag
                     /\ o.age <= HeartbeatTimeout -> DidNothing(n)
                [] o # Nil /\ o.MemberID = n /\ flag -> DidNothing(n)]_vars

\* a follower has observed a foreign record exactly HeartbeatTimeout old
\* and waited, while a node holding the flag is about to handle a foreign
\* record that is older than that
C16_BoundaryAndExpiredRows ==
    \E n, m \in Nodes :
        /\ n # m /\ alive[n] /\ alive[m]
        /\ dmPc[n] = "handle" /\ obs[n] # Nil /\ obs[n].MemberID = m
        /\ ~DirectorState[n] /\ obs[n].age = HeartbeatTimeout
        /\ dmPc[m] = "handle" /\ obs[m] # Nil /\ obs[m].MemberID = n
        /\ DirectorState[m] /\ obs[m].age > HeartbeatTimeout

\* the store accepts the write of a START made from the observation of n:
\* it answers, and the record is absent as observed (CREATE) or still holds
\* the observed bytes (UPDATE)
StoreAccepts(n) ==
    /\ storeUp
    /\ IF obs[n] = Nil THEN director = NoBytes
       ELSE director # NoBytes /\ director = Marshal(obs[n])

\* C17: START sets DirectorState and offers true on StateChan only after
\* its store write succeeded; when the write fails the flag is unchanged,
\* nothing is offered on StateChan and the record is as it was.
C17_StartOnlyAfterWrite ==
    [][\A n \in Nodes :
          /\ (dmPc[n] # "start" /\ dmPc'[n] = "start")
                => (/\ dmPc[n] = "handle" /\ StoreAccepts(n)
                    /\ director' = Marshal(newDirectorJSON(n)))
          /\ (DirectorState'[n] /\ DirectorState'[n] # DirectorState[n])
                => dmPc[n] = "start"
          /\ (dmPc[n] # "send" /\ dmPc'[n] = "send" /\ DirectorState'[n])
                => dmPc[n] = "start"
          /\ (StateChan'[n] /\ ~StateChan[n]) => dmPc[n] = "send"
          /\ (Handles(n) /\ ~StoreAccepts(n)
                /\ handleState(n, obs[n], amDirector(n)).action = "START")
                => (/\ DirectorState'[n] = DirectorState[n]
                    /\ dmPc'[n] = "idle"
                    /\ StateChan'[n] = StateChan[n]
                    /\ director' = director)]_vars

\* a follower is about to UPDATE against a record that is no longer the one
\* it observed, the store being reachable
C17_RefusedUpdate ==
    \E n \in Nodes :
        /\ alive[n] /\ storeUp /\ ~DirectorState[n]
        /\ dmPc[n] = "handle" /\ obs[n] # Nil
        /\ handleState(n, obs[n], amDirector(n)).action = "START"
        /\ ~StoreAccepts(n)

\* node n holds the flag and has observed a record naming another member
SplitBrainSeen(n) ==
    /\ DirectorState[n] /\ dmPc[n] = "handle"
    /\ obs[n] # Nil /\ obs[n].MemberID # n

\* C18: the STOP action (the flag is true while the observed record names
\* another member) sets DirectorState to false and publishes false on
\* StateChan, and no step of the demoting tick writes cluster/director.
C18_StopWritesNothing ==
    [][\A n \in Nodes :
          /\ (SplitBrainSeen(n) /\ Handles(n))
                => (/\ ~DirectorState'[n] /\ dmPc'[n] = "send"
                    /\ DirectorLock'[n] /\ director' = director)
          /\ (DirectorState[n] /\ ~DirectorState'[n] /\ alive'[n])
                => (SplitBrainSeen(n) /\ director' = director)
          /\ (dmPc[n] = "send" /\ ~DirectorState[n] /\ dmPc'[n] # "send"
                /\ alive'[n])
                => (/\ ~StateChan'[n] /\ ~DirectorState'[n]
                    /\ dmPc'[n] = "idle" /\ director' = director)]_vars

\* a node has just demoted itself beside the director named by the record:
\* its flag is false, false is on offer on StateChan after the true it sent
\* before, and the record is the other director's
C18_DemotedBesideRecord ==
    \E n, m \in Nodes :
        /\ n # m /\ alive[n] /\ alive[m]
        /\ ~DirectorState[n] /\ dmPc[n] = "send" /\ DirectorLock[n]
        /\ StateChan[n]
        /\ DirectorState[m]
        /\ director # NoBytes /\ director.member = m

\* node m is about to attempt a START
Contends(m) ==
    /\ alive[m] /\ dmPc[m] = "handle"
    /\ handleState(m, obs[m], amDirector(m)).action = "START"

\* the record is no longer what node m observed
Stale(m) ==
    IF obs[m] = Nil THEN director # NoBytes ELSE director # Marshal(obs[m])

\* the store write of the START of node n succeeds
Wins(n) == dmPc[n] = "handle" /\ dmPc'[n] = "start"

\* the race is decided for one node: once the write of a START made from an
\* observation has succeeded, the store refuses the write of every other
\* node that contends from the same observation, for as long as it contends
OneWinner ==
    \A n, m \in Nodes :
        /\ (n # m /\ Wins(n) /\ Contends(m) /\ obs[m] = obs[n])
              => (Contends(m)' /\ Stale(m)')
        /\ (Contends(m) /\ Stale(m) /\ dmPc'[m] = "handle" /\ alive'[m])
              => Stale(m)'

\* C19 (as claimed): of the nodes that attempt START concurrently from the
\* same observation at most one has its write accepted; every loser leaves
\* its DirectorState false, publishes nothing, writes nothing and is back
\* at the start of its loop to observe again.
C19_LosersStayFollowers ==
    [][/\ OneWinner
       /\ \A m \in Nodes :
             (Contends(m) /\ Stale(m) /\ Handles(m))
                => (/\ ~DirectorState'[m] /\ dmPc'[m] = "idle"
                    /\ StateChan'[m] = StateChan[m]
                    /\ director' = director)]_vars

\* C19 (amended): at most one write is accepted, and every loser leaves its
\* DirectorState as it was, publishes nothing, writes nothing and is back at
\* the start of its loop; a loser that held the flag (a director whose
\* record had vanished) still holds it.
C19_LosersChangeNothing ==
    [][/\ OneWinner
       /\ \A m \in Nodes :
             (Contends(m) /\ Stale(m) /\ Handles(m))
                => (/\ DirectorState'[m] = DirectorState[m]
                    /\ dmPc'[m] = "idle"
                    /\ StateChan'[m] = StateChan[m]
                    /\ director' = director)]_vars

\* a director and a follower both observed the record as absent; the
\* follower has created it and the director is about to lose its CREATE
C19_DirectorLosesRace ==
    \E n, m \in Nodes :
        /\ n # m /\ alive[n] /\ dmPc[n] = "start"
        /\ director # NoBytes /\ director.member = n
        /\ Contends(m) /\ obs[m] = Nil /\ DirectorState[m] /\ storeUp

\* a step of DirectorHeartbeat, MemberHeartbeat or MemberMonitor of node n
OtherLoopStep(n) ==
    \/ dhPc'[n] # dhPc[n]
    \/ mhPc'[n] # mhPc[n]
    \/ refreshing'[n] # refreshing[n]
    \/ mmPc'[n] # mmPc[n]
    \/ cursor'[n] # cursor[n]

\* C20: DirectorState is false after construction and is written only by
\* DirectorMonitor, through setDirectorState called from changeState: every
\* step of DirectorHeartbeat, MemberHeartbeat and MemberMonitor leaves it
\* unchanged.
C20_MonitorIsSoleWriter ==
    /\ \A n \in Nodes : ~DirectorState[n]
    /\ [][\A n \in Nodes :
            /\ (~alive[n] /\ alive'[n]) => ~DirectorState'[n]
            /\ (alive'[n] /\ DirectorState'[n] # DirectorState[n])
                  => (/\ dmPc[n] \in {"handle", "start"} /\ dmPc'[n] = "send"
                      /\ DirectorLock'[n] /\ ~OtherLoopStep(n))
            /\ (alive'[n] /\ OtherLoopStep(n))
                  => DirectorState'[n] = DirectorState[n]]_vars

\* DirectorMonitor is idle on a director whose heartbeat is about to be
\* written, whose Refresh is under way and whose MemberMonitor is publishing
C20_OtherLoopsBesideFlag ==
    \E n \in Nodes :
        /\ alive[n] /\ DirectorState[n] /\ StateChan[n] /\ dmPc[n] = "idle"
        /\ dhPc[n] = "write" /\ refreshing[n] /\ mmPc[n] = "send"

\* this step stores a payload naming node n under cluster/director
WritesRecord(n) ==
    /\ director' # NoBytes /\ director'.member = n
    /\ director'.age = 0 /\ director' # director

\* C21: DirectorHeartbeat writes cluster/director on a tick if and only if
\* amDirector() returned true at the start of that tick; a tick on which
\* DirectorState is false performs no store operation, and the record it
\* writes is {SELF, NOW}.
C21_HeartbeatIffDirector ==
    [][\A n \in Nodes :
          /\ (dhPc[n] = "idle" /\ dhPc'[n] # "idle" /\ alive'[n])
                => (/\ DirectorState[n] /\ dhPc'[n] = "write"
                    /\ director' = director)
          /\ (dhPc[n] = "idle" /\ ~DirectorState[n] /\ alive'[n])
                => (/\ dhPc'[n] = "idle"
                    /\ (WritesRecord(n) => dmPc[n] = "handle"))
          /\ (dhPc[n] = "write" /\ dhPc'[n] # "write" /\ alive'[n])
                => (/\ dhPc'[n] = "idle"
                    /\ director' = IF storeUp
                                   THEN [member |-> n, stamp |-> "cur",
                                         age |-> 0, form |-> "canon"]
                                   ELSE director)]_vars

\* a director is past the gate of its heartbeat with its last heartbeat
\* stored, while the heartbeat of a follower is idle
C21_DirectorPastGate ==
    \E n, m \in Nodes :
        /\ n # m /\ alive[n] /\ alive[m] /\ storeUp
        /\ DirectorState[n] /\ dhPc[n] = "write" /\ dmPc[n] = "idle"
        /\ director # NoBytes /\ director.member = n /\ director.age > 0
        /\ ~DirectorState[m] /\ dhPc[m] = "idle" /\ StateChan[n]

\* the event the watcher of node n is handed next
NextEvent(n) == events[cursor[n] + 1]

\* C22: for every watch event MemberMonitor consumes, true is published on
\* DistributeChan exactly when the event is a set of a directory whose
\* basename is not config, or an expire; a set of a non-directory key or of
\* a key named config, and every other action, publishes nothing.
C22_PublishFilter ==
    [][\A n \in Nodes : Consumes(n) =>
          LET e == NextEvent(n)
              basename == IF e.leaf = "" THEN e.member ELSE e.leaf
              wanted == \/ e.action = "set" /\ e.dir /\ basename # "config"
                        \/ e.action = "expire"
          IN  /\ mmPc'[n] = IF wanted THEN "send" ELSE "gate"
              /\ mmEvent'[n] = IF wanted THEN e ELSE mmEvent[n]]_vars

\* the director has been handed the expiry of a key that is not a
\* directory and is sending true for it
C22_ExpirePublished ==
    \E n \in Nodes :
        /\ alive[n] /\ DirectorState[n] /\ mmPc[n] = "send"
        /\ mmEvent[n].action = "expire" /\ ~mmEvent[n].dir
        /\ mmEvent[n].leaf = "config"

\* runMemberHeartbeat of node n moves from position p to position q
MHStep(n, p, q) == mhPc[n] = p /\ mhPc'[n] = q /\ alive'[n]

\* C23: member start-up reclaims identity: whatever was stored under
\* cluster/members/<SELF> before, a successful createInitialMemberStructure
\* leaves exactly the directory with its TTL, a fresh status leaf and an
\* empty config directory without TTL, built in the order delete stale,
\* create directory, write status, create config, and all of it before
\* init-complete is signalled.
C23_StartupReclaimsIdentity ==
    [][\A n \in Nodes :
          /\ MHStep(n, "exists", "mkdir") => members[n] = NoDir
          /\ MHStep(n, "exists", "delete") => members[n].dir
          /\ MHStep(n, "delete", "mkdir") => members'[n] = NoDir
          /\ MHStep(n, "mkdir", "status")
                => members'[n] = [NoDir EXCEPT !.dir = TRUE, !.ttl = TRUE]
          /\ MHStep(n, "status", "config")
                => members'[n] = [FullDir EXCEPT !.config = FALSE]
          /\ MHStep(n, "config", "signal") => members'[n] = FullDir
          /\ (alive'[n] /\ mhPc'[n] # mhPc[n])
                => \/ MHStep(n, "exists", "mkdir") \/ MHStep(n, "exists", "delete")
                   \/ MHStep(n, "delete", "mkdir") \/ MHStep(n, "mkdir", "status")
                   \/ MHStep(n, "status", "config")
                   \/ MHStep(n, "config", "signal")
                   \/ MHStep(n, "signal", "loop")
          /\ (~initFinished[n] /\ initFinished'[n])
                => (mhPc[n] = "signal" /\ members[n] = FullDir)]_vars

\* one member has completed its start-up while the other is about to delete
\* a stale directory that has lost its TTL and holds foreign children
C23_StaleBesideReclaimed ==
    \E n, m \in Nodes :
        /\ alive[n] /\ initFinished[n] /\ mhPc[n] = "loop"
        /\ members[n] = FullDir
        /\ alive[m] /\ mhPc[m] = "delete"
        /\ members[m].extra /\ ~members[m].ttl /\ ~members[m].config

\* C24: Stop() issues Quit on all three timed loopers (DirectorMonitor,
\* DirectorHeartbeat, MemberHeartbeat) before it cancels the context that
\* ends MemberMonitor.
C24_QuitsBeforeCancel ==
    [][\A n \in Nodes :
          ("ctx" \notin stopped[n] /\ "ctx" \in stopped'[n])
             => {"dm", "dh", "mh"} \subseteq stopped[n]]_vars

\* the positions one DirectorMonitor iteration goes through, in order
DMOrder(p, q) ==
    \/ p = "idle" /\ q = "handle"
    \/ p = "handle" /\ q \in {"idle", "start", "send"}
    \/ p = "start" /\ q = "send"
    \/ p = "send" /\ q = "idle"

\* the observation of node n is one that calls for no change: its own
\* record under a true flag, or a live record of another member under a
\* false flag
SteadyObservation(n) ==
    /\ obs[n] # Nil
    /\ \/ obs[n].MemberID = n /\ DirectorState[n]
       \/ /\ obs[n].MemberID # n /\ ~DirectorState[n]
          /\ obs[n].age <= HeartbeatTimeout

\* C25: a DirectorMonitor tick writes the store at most once (only the step
\* that leaves handleState for a START writes, and a tick passes it once),
\* and a tick whose observation calls for no change, own record and flag
\* true or live foreign record and flag false, writes nothing at all.
C25_AtMostOneWritePerTick ==
    [][\A n \in Nodes : (alive'[n] /\ dmPc'[n] # dmPc[n]) =>
          /\ DMOrder(dmPc[n], dmPc'[n])
          /\ director' # director
                => (/\ dmPc[n] = "handle" /\ dmPc'[n] = "start"
                    /\ director' = Marshal(newDirectorJSON(n)))
          /\ (dmPc[n] = "handle" /\ SteadyObservation(n))
                => (/\ director' = director /\ dmPc'[n] = "idle"
                    /\ DirectorState'[n] = DirectorState[n])]_vars

\* the director and a follower are both about to handle an observation of
\* the director's record, which has aged by a tick since it was written
C25_BothSeeSteadyRecord ==
    \E n, m \in Nodes :
        /\ n # m /\ alive[n] /\ alive[m] /\ storeUp
        /\ dmPc[n] = "handle" /\ dmPc[m] = "handle"
        /\ SteadyObservation(n) /\ obs[n].MemberID = n
        /\ SteadyObservation(m) /\ obs[m].MemberID = n
        /\ director = Marshal(obs[n]) /\ director.age = HeartbeatInterval

\* C26: round trip of the director record: deserializing the stored payload
\* and serializing it again yields the stored bytes, so an UPDATE whose
\* precondition is the re-serialized observation succeeds whenever
\* cluster/director has not been written since that observation.
C26_RoundTripUpdate ==
    [][\A n \in Nodes :
          (/\ Handles(n) /\ storeUp /\ ObservedStillStored(n)
           /\ handleState(n, obs[n], amDirector(n)).etcdAction = "UPDATE")
          => (/\ Marshal(Unmarshal(director)) = director
              /\ dmPc'[n] = "start"
              /\ director' = Marshal(newDirectorJSON(n)))]_vars

\* C27: setDirectorState holds DirectorLock while it sends on the unbuffered
\* StateChan, so whenever amDirector() can read the flag it is the value
\* last received from StateChan; the flag changes only under the lock and
\* is the same for all reads between two receipts; while the send is
\* pending DirectorHeartbeat and MemberMonitor do not get past amDirector().
C27_FlagReadableOnlyOncePublished ==
    /\ [](\A n \in Nodes :
            (alive[n] /\ ~DirectorLock[n]) => StateChan[n] = DirectorState[n])
    /\ [][\A n \in Nodes : alive'[n] =>
            /\ (DirectorLock[n] /\ dhPc[n] = "idle") => dhPc'[n] = "idle"
            /\ (DirectorLock[n] /\ mmPc[n] = "gate") => mmPc'[n] = "gate"
            /\ DirectorState'[n] # DirectorState[n]
                  => (~DirectorLock[n] /\ DirectorLock'[n])
            /\ (DirectorLock[n] /\ ~DirectorLock'[n])
                  => (/\ StateChan'[n] = DirectorState[n]
                      /\ DirectorState'[n] = DirectorState[n])]_vars

\* the send of a promotion is pending: the flag is already true, nothing
\* was received yet, and DirectorHeartbeat and MemberMonitor stand before
\* amDirector()
C27_ReadersBehindPendingSend ==
    \E n \in Nodes :
        /\ alive[n] /\ DirectorLock[n] /\ DirectorState[n] /\ ~StateChan[n]
        /\ dmPc[n] = "send" /\ dhPc[n] = "idle" /\ mmPc[n] = "gate"

====
